---- MODULE Spec2Model ----
(***************************************************************************)
(* Model of the elevator dispatch core of "LLD examples/7.elevator_system.py": *)
(* Elevator (per-car state machine), NearestCarScheduler (car selection)   *)
(* and ElevatorController (request routing and the simulation tick).       *)
(***************************************************************************)
EXTENDS Integers, Sequences, FiniteSets, TLC

\* ---------------------------------------------------------------- bounds
\* Number of floors of the modelled building (num_floors).
MaxFloor == 4
\* Fleet size: the two-car fleet of the demo's third scenario.
NumCars == 2
\* The same-direction bonus of NearestCarScheduler.select_elevator.
Bonus == 100
\* Ticks are counted after the last request up to this cap.
TickCap == 3 * MaxFloor

\* ------------------------------------------------------------ vocabulary
\* class Direction
Direction == {"UP", "DOWN", "IDLE"}
\* class ElevatorState
ElevatorState == {"IDLE", "MOVING", "DOOR_OPEN", "MAINTENANCE"}
\* Python's None (select_elevator's "no car").
None == 0
\* Floor arguments a caller may pass: the valid floors and both neighbours.
FloorArgs == 0..(MaxFloor + 1)
\* Car ids a caller may pass to destination_request: negative, zero, valid, too large.
IdArgs == (0 - 1)..(NumCars + 1)
\* The ids of the fleet, elevator_id = index + 1.
Fleet == 1..NumCars

VARIABLES
    elevators,  \* ElevatorController.elevators: id -> Elevator fields
    last,       \* the branch the most recent operation ended in
    phase,      \* "open" while the caller still issues requests, then "closed"
    ticks       \* number of step() calls since the phase closed (capped)

vars == <<elevators, last, phase, ticks>>

\* ------------------------------------------------------------- Elevator
\* Elevator.__init__
NewElevator ==
    [current_floor |-> 1, direction |-> "IDLE", state |-> "IDLE",
     max_floor |-> MaxFloor, up_stops |-> {}, down_stops |-> {}]

\* The branch Elevator.add_stop takes for `floor`.
add_stop_branch(e, floor) ==
    IF floor < 1 \/ floor > e.max_floor THEN "range"
    ELSE IF floor > e.current_floor THEN "up"
    ELSE IF floor < e.current_floor THEN "down"
    ELSE "same"

\* add_stop without the upper range check.
add_stop_NoUpperCheck(e, floor) ==
    IF floor < 1 THEN e
    ELSE IF floor > e.current_floor THEN [e EXCEPT !.up_stops = @ \cup {floor}]
    ELSE IF floor < e.current_floor THEN [e EXCEPT !.down_stops = @ \cup {floor}]
    ELSE e

\* add_stop with `>=` in place of `>`: the car's own floor becomes an up stop.
add_stop_AtOrAbove(e, floor) ==
    IF floor < 1 \/ floor > e.max_floor THEN e
    ELSE IF floor >= e.current_floor THEN [e EXCEPT !.up_stops = @ \cup {floor}]
    ELSE IF floor < e.current_floor THEN [e EXCEPT !.down_stops = @ \cup {floor}]
    ELSE e

\* add_stop that files the car's own floor by the car's direction instead of
\* dropping it.
add_stop_ByDirection(e, floor) ==
    IF floor < 1 \/ floor > e.max_floor THEN e
    ELSE IF floor > e.current_floor THEN [e EXCEPT !.up_stops = @ \cup {floor}]
    ELSE IF floor < e.current_floor THEN [e EXCEPT !.down_stops = @ \cup {floor}]
    ELSE IF e.direction = "UP" THEN [e EXCEPT !.up_stops = @ \cup {floor}]
    ELSE IF e.direction = "DOWN" THEN [e EXCEPT !.down_stops = @ \cup {floor}]
    ELSE e

\* add_stop without the lower range check.
add_stop_NoLowerCheck(e, floor) ==
    IF floor > e.max_floor THEN e
    ELSE IF floor > e.current_floor THEN [e EXCEPT !.up_stops = @ \cup {floor}]
    ELSE IF floor < e.current_floor THEN [e EXCEPT !.down_stops = @ \cup {floor}]
    ELSE e

\* add_stop with `else` in place of `elif floor < current_floor`.
add_stop_ElseDown(e, floor) ==
    IF floor < 1 \/ floor > e.max_floor THEN e
    ELSE IF floor > e.current_floor THEN [e EXCEPT !.up_stops = @ \cup {floor}]
    ELSE [e EXCEPT !.down_stops = @ \cup {floor}]

\* add_stop where a second request for a pending floor cancels the first.
add_stop_Toggle(e, floor) ==
    IF floor < 1 \/ floor > e.max_floor THEN e
    ELSE IF floor > e.current_floor
         THEN [e EXCEPT !.up_stops = (@ \ {floor}) \cup ({floor} \ @)]
    ELSE IF floor < e.current_floor
         THEN [e EXCEPT !.down_stops = (@ \ {floor}) \cup ({floor} \ @)]
    ELSE e

\* add_stop with the two stop sets interchanged.
add_stop_Swapped(e, floor) ==
    IF floor < 1 \/ floor > e.max_floor THEN e
    ELSE IF floor > e.current_floor THEN [e EXCEPT !.down_stops = @ \cup {floor}]
    ELSE IF floor < e.current_floor THEN [e EXCEPT !.up_stops = @ \cup {floor}]
    ELSE e

\* Elevator.add_stop
add_stop(e, floor) ==
    IF floor < 1 \/ floor > e.max_floor THEN e
    ELSE IF floor > e.current_floor THEN [e EXCEPT !.up_stops = @ \cup {floor}]
    ELSE IF floor < e.current_floor THEN [e EXCEPT !.down_stops = @ \cup {floor}]
    ELSE e

\* Elevator.should_stop
should_stop(e) ==
    \/ e.direction = "UP" /\ e.current_floor \in e.up_stops
    \/ e.direction = "DOWN" /\ e.current_floor \in e.down_stops

\* close_door that leaves the door open.
close_door_StaysOpen(e) == e

\* close_door with its test negated: an open door stays open.
close_door_Inverted(e) ==
    IF e.state # "DOOR_OPEN" THEN [e EXCEPT !.state = "IDLE"] ELSE e

\* Elevator.close_door
close_door(e) ==
    IF e.state = "DOOR_OPEN" THEN [e EXCEPT !.state = "IDLE"] ELSE e

\* stop that empties both stop sets.
stop_ClearAll(e) ==
    close_door([e EXCEPT !.state = "DOOR_OPEN",
                         !.up_stops = {},
                         !.down_stops = {}])

\* stop that forgets to discard the floor from down_stops.
stop_UpOnly(e) ==
    close_door([e EXCEPT !.state = "DOOR_OPEN",
                         !.up_stops = @ \ {e.current_floor}])

\* stop that clears down_stops instead of discarding the floor from it.
stop_ClearDown(e) ==
    close_door([e EXCEPT !.state = "DOOR_OPEN",
                         !.up_stops = @ \ {e.current_floor},
                         !.down_stops = {}])

\* stop that cycles the door but discards the floor from neither set.
stop_NoDiscard(e) ==
    close_door([e EXCEPT !.state = "DOOR_OPEN"])

\* Elevator.stop
stop(e) ==
    close_door([e EXCEPT !.state = "DOOR_OPEN",
                         !.up_stops = @ \ {e.current_floor},
                         !.down_stops = @ \ {e.current_floor}])

\* move without the MAINTENANCE test.
move_InMaintenance(e) ==
    IF should_stop(e) THEN stop(e)
    ELSE IF e.up_stops = {} /\ e.down_stops = {}
         THEN [e EXCEPT !.direction = "IDLE", !.state = "IDLE"]
    ELSE IF e.up_stops # {} /\ (e.down_stops = {} \/ e.direction = "UP")
         THEN [e EXCEPT !.direction = "UP", !.state = "MOVING",
                        !.current_floor = @ + 1]
    ELSE IF e.down_stops # {}
         THEN [e EXCEPT !.direction = "DOWN", !.state = "MOVING",
                        !.current_floor = @ - 1]
    ELSE e

\* move that goes up whenever up_stops is non-empty, whatever the direction.
move_UpFirst(e) ==
    IF e.state = "MAINTENANCE" THEN e
    ELSE IF should_stop(e) THEN stop(e)
    ELSE IF e.up_stops = {} /\ e.down_stops = {}
         THEN [e EXCEPT !.direction = "IDLE", !.state = "IDLE"]
    ELSE IF e.up_stops # {}
         THEN [e EXCEPT !.direction = "UP", !.state = "MOVING",
                        !.current_floor = @ + 1]
    ELSE IF e.down_stops # {}
         THEN [e EXCEPT !.direction = "DOWN", !.state = "MOVING",
                        !.current_floor = @ - 1]
    ELSE e

\* move that goes down whenever down_stops is non-empty.
move_DownFirst(e) ==
    IF e.state = "MAINTENANCE" THEN e
    ELSE IF should_stop(e) THEN stop(e)
    ELSE IF e.up_stops = {} /\ e.down_stops = {}
         THEN [e EXCEPT !.direction = "IDLE", !.state = "IDLE"]
    ELSE IF e.down_stops # {}
         THEN [e EXCEPT !.direction = "DOWN", !.state = "MOVING",
                        !.current_floor = @ - 1]
    ELSE [e EXCEPT !.direction = "UP", !.state = "MOVING",
                   !.current_floor = @ + 1]

\* move with `direction != DOWN` in place of `direction == UP`.
move_IdleUp(e) ==
    IF e.state = "MAINTENANCE" THEN e
    ELSE IF should_stop(e) THEN stop(e)
    ELSE IF e.up_stops = {} /\ e.down_stops = {}
         THEN [e EXCEPT !.direction = "IDLE", !.state = "IDLE"]
    ELSE IF e.up_stops # {} /\ (e.down_stops = {} \/ e.direction # "DOWN")
         THEN [e EXCEPT !.direction = "UP", !.state = "MOVING",
                        !.current_floor = @ + 1]
    ELSE IF e.down_stops # {}
         THEN [e EXCEPT !.direction = "DOWN", !.state = "MOVING",
                        !.current_floor = @ - 1]
    ELSE e

\* move without the `return` after self.stop(): the car stops and goes on.
move_NoReturn(e) ==
    IF e.state = "MAINTENANCE" THEN e
    ELSE LET s == IF should_stop(e) THEN stop(e) ELSE e
         IN  IF s.up_stops = {} /\ s.down_stops = {}
             THEN [s EXCEPT !.direction = "IDLE", !.state = "IDLE"]
             ELSE IF s.up_stops # {} /\ (s.down_stops = {} \/ s.direction = "UP")
                  THEN [s EXCEPT !.direction = "UP", !.state = "MOVING",
                                 !.current_floor = @ + 1]
             ELSE IF s.down_stops # {}
                  THEN [s EXCEPT !.direction = "DOWN", !.state = "MOVING",
                                 !.current_floor = @ - 1]
             ELSE s

\* Elevator.move
move(e) ==
    IF e.state = "MAINTENANCE" THEN e
    ELSE IF should_stop(e) THEN stop(e)
    ELSE IF e.up_stops = {} /\ e.down_stops = {}
         THEN [e EXCEPT !.direction = "IDLE", !.state = "IDLE"]
    ELSE IF e.up_stops # {} /\ (e.down_stops = {} \/ e.direction = "UP")
         THEN [e EXCEPT !.direction = "UP", !.state = "MOVING",
                        !.current_floor = @ + 1]
    ELSE IF e.down_stops # {}
         THEN [e EXCEPT !.direction = "DOWN", !.state = "MOVING",
                        !.current_floor = @ - 1]
    ELSE e

\* Elevator.is_available
is_available(e) == e.state # "MAINTENANCE"

\* Elevator.get_distance
get_distance(e, floor) ==
    IF e.current_floor >= floor THEN e.current_floor - floor
    ELSE floor - e.current_floor

\* is_moving_towards with `<=` and `>=`: a car at the floor counts as heading
\* toward it.
is_moving_towards_AtFloor(e, floor, direction) ==
    IF e.direction = "IDLE" THEN TRUE
    ELSE IF e.direction = direction
         THEN IF direction = "UP" THEN e.current_floor <= floor
              ELSE e.current_floor >= floor
    ELSE FALSE

\* is_moving_towards with the floor comparisons the wrong way round.
is_moving_towards_Reversed(e, floor, direction) ==
    IF e.direction = "IDLE" THEN TRUE
    ELSE IF e.direction = direction
         THEN IF direction = "UP" THEN e.current_floor > floor
              ELSE e.current_floor < floor
    ELSE FALSE

\* Elevator.is_moving_towards
is_moving_towards(e, floor, direction) ==
    IF e.direction = "IDLE" THEN TRUE
    ELSE IF e.direction = direction
         THEN IF direction = "UP" THEN e.current_floor < floor
              ELSE e.current_floor > floor
    ELSE FALSE

\* --------------------------------------------------- NearestCarScheduler
\* available = [e for e in elevators if e.is_available()], as a list of ids.
available_of(els) ==
    SelectSeq([i \in 1..Len(els) |-> i], LAMBDA id : is_available(els[id]))

\* The score with a bonus of one floor only.
score_SmallBonus(e, floor, direction) ==
    IF is_moving_towards(e, floor, direction)
    THEN get_distance(e, floor) - 1
    ELSE get_distance(e, floor)

\* The score select_elevator gives a car: distance, less the bonus.
score(e, floor, direction) ==
    IF is_moving_towards(e, floor, direction)
    THEN get_distance(e, floor) - Bonus
    ELSE get_distance(e, floor)

\* The selection loop with `<=` in place of `<`.
RECURSIVE select_loop_LastWins(_, _, _, _, _, _, _)
select_loop_LastWins(els, available, floor, direction, i, best_elevator, min_distance) ==
    IF i > Len(available) THEN best_elevator
    ELSE LET distance == score(els[available[i]], floor, direction)
         IN  IF best_elevator = None \/ distance <= min_distance
             THEN select_loop_LastWins(els, available, floor, direction, i + 1,
                                       available[i], distance)
             ELSE select_loop_LastWins(els, available, floor, direction, i + 1,
                                       best_elevator, min_distance)

\* The loop of select_elevator from position i on; min_distance is float('inf')
\* exactly while best_elevator is None.
RECURSIVE select_loop(_, _, _, _, _, _, _)
select_loop(els, available, floor, direction, i, best_elevator, min_distance) ==
    IF i > Len(available) THEN best_elevator
    ELSE LET distance == score(els[available[i]], floor, direction)
         IN  IF best_elevator = None \/ distance < min_distance
             THEN select_loop(els, available, floor, direction, i + 1,
                              available[i], distance)
             ELSE select_loop(els, available, floor, direction, i + 1,
                              best_elevator, min_distance)

\* select_elevator without the is_available filter.
select_elevator_NoFilter(els, floor, direction) ==
    select_loop(els, [i \in 1..Len(els) |-> i], floor, direction, 1, None, 0)

\* NearestCarScheduler.select_elevator: the chosen car's id, or None.
select_elevator(els, floor, direction) ==
    LET available == available_of(els)
    IN  IF Len(available) = 0 THEN None
        ELSE select_loop(els, available, floor, direction, 1, None, 0)

\* ---------------------------------------------------- ElevatorController
\* ElevatorController.__init__
Init ==
    /\ elevators = [id \in Fleet |-> NewElevator]
    /\ last = "init"
    /\ phase = "open"
    /\ ticks = 0

\* self.elevators[elevator_id - 1]: the id of the car Python's list indexing
\* yields (a negative index counts from the end), or None for IndexError.
lookup(elevator_id) ==
    LET idx == elevator_id - 1
        n == Len(elevators)
    IN  IF 0 <= idx /\ idx < n THEN idx + 1
        ELSE IF 0 - n <= idx /\ idx < 0 THEN idx + n + 1
        ELSE None

\* ElevatorController.request_elevator
request_elevator(floor, direction) ==
    LET elevator == select_elevator(elevators, floor, direction)
    IN  IF elevator # None
        THEN /\ elevators' = [elevators EXCEPT
                                ![elevator] = add_stop(@, floor)]
             /\ last' = add_stop_branch(elevators[elevator], floor)
        ELSE /\ elevators' = elevators
             /\ last' = "no_car"

\* ElevatorController.destination_request
destination_request(elevator_id, floor) ==
    LET elevator == lookup(elevator_id)
    IN  IF elevator # None
        THEN /\ elevators' = [elevators EXCEPT
                                ![elevator] = add_stop(@, floor)]
             /\ last' = add_stop_branch(elevators[elevator], floor)
        ELSE /\ elevators' = elevators
             /\ last' = "index_error"

\* step without the test for pending stops: every car is moved.
step_EveryCar(els) ==
    [id \in DOMAIN els |-> move(els[id])]

\* step that returns after moving the first car that has stops.
step_FirstOnly(els) ==
    [id \in DOMAIN els |->
        IF /\ els[id].up_stops # {} \/ els[id].down_stops # {}
           /\ \A j \in 1..(id - 1) : els[j].up_stops = {} /\ els[j].down_stops = {}
        THEN move(els[id]) ELSE els[id]]

\* ElevatorController.step: every car with a pending stop moves once; the
\* cars share no state, so the loop is a map over the fleet.
step(els) ==
    [id \in DOMAIN els |->
        IF els[id].up_stops # {} \/ els[id].down_stops # {}
        THEN move(els[id]) ELSE els[id]]

\* The body of the loop of step for one car: `if elevator.up_stops or
\* elevator.down_stops: elevator.move()`.
step_car(els, id) ==
    IF els[id].up_stops # {} \/ els[id].down_stops # {}
    THEN [els EXCEPT ![id] = move(@)] ELSE els

\* The loop of step leaving (`break`) after the first car that had stops.
RECURSIVE step_loop_Break(_, _, _)
step_loop_Break(els, order, i) ==
    IF i > Len(order) THEN els
    ELSE IF step_car(els, order[i]) # els THEN step_car(els, order[i])
    ELSE step_loop_Break(els, order, i + 1)

\* `for elevator in self.elevators: ...` run over the cars in the given order,
\* from position i on.
RECURSIVE step_loop(_, _, _)
step_loop(els, order, i) ==
    IF i > Len(order) THEN els
    ELSE step_loop(step_car(els, order[i]), order, i + 1)

\* One tick of the driver loop (run_simulation calls step()).
Step ==
    /\ elevators' = step(elevators)
    /\ last' = "step"
    /\ ticks' = IF phase = "closed" /\ ticks < TickCap THEN ticks + 1 ELSE ticks
    /\ UNCHANGED phase

\* The caller issues its last request: from here on only step() is called.
Close ==
    /\ phase = "open"
    /\ phase' = "closed"
    /\ last' = "close"
    /\ UNCHANGED <<elevators, ticks>>

\* A hall call arrives while the caller still issues requests.
RequestHallCall ==
    /\ phase = "open"
    /\ \E floor \in FloorArgs, direction \in {"UP", "DOWN"} :
          request_elevator(floor, direction)
    /\ UNCHANGED <<phase, ticks>>

\* A car call arrives while the caller still issues requests.
RequestCarCall ==
    /\ phase = "open"
    /\ \E elevator_id \in IdArgs, floor \in FloorArgs :
          destination_request(elevator_id, floor)
    /\ UNCHANGED <<phase, ticks>>

Next == RequestHallCall \/ RequestCarCall \/ Step \/ Close

Spec == Init /\ [][Next]_vars

\* The driver keeps calling step().
FairSpec == Spec /\ WF_vars(Step)

\* ------------------------------------------------- administrative transition
\* Taking the car out of service by setting its state only.
eject_KeepsStops(e) ==
    [e EXCEPT !.state = "MAINTENANCE"]

\* "Any state -> OutOfService": the car is taken out of service and both of
\* its stop sets are cleared without being served.  No method of the source
\* performs it; ElevatorState.MAINTENANCE is only ever read there.
eject_to_maintenance(e) ==
    [e EXCEPT !.state = "MAINTENANCE", !.up_stops = {}, !.down_stops = {}]

SetMaintenance ==
    \E id \in Fleet :
        /\ phase = "open"
        /\ elevators[id].state # "MAINTENANCE"
        /\ elevators' = [elevators EXCEPT ![id] = eject_to_maintenance(@)]
        /\ last' = "maint"
        /\ UNCHANGED <<phase, ticks>>

NextMaint == RequestHallCall \/ RequestCarCall \/ Step \/ SetMaintenance

\* The fleet with cars that may be taken out of service.
SpecMaint == Init /\ [][NextMaint]_vars

\* ------------------------------------------------------ one car on its own
\* Elevator(1, MaxFloor), driven through its own methods add_stop and move
\* rather than through a controller.
InitCar ==
    /\ elevators = <<NewElevator>>
    /\ last = "init"
    /\ phase = "open"
    /\ ticks = 0

\* elevator.add_stop(floor)
CarAddStop ==
    /\ \E floor \in FloorArgs :
          /\ elevators' = [elevators EXCEPT ![1] = add_stop(@, floor)]
          /\ last' = add_stop_branch(elevators[1], floor)
    /\ UNCHANGED <<phase, ticks>>

\* elevator.move()
CarMove ==
    /\ elevators' = [elevators EXCEPT ![1] = move(@)]
    /\ last' = IF /\ elevators[1].direction = "IDLE"
                  /\ elevators[1].up_stops # {}
                  /\ elevators[1].down_stops # {}
               THEN "move_tie" ELSE "move"
    /\ UNCHANGED <<phase, ticks>>

NextCar == CarAddStop \/ CarMove

SpecCar == InitCar /\ [][NextCar]_vars

\* ------------------------------------------------- one car and its sweeps
\* The single car again, with `phase` recording the sweep it is in: the
\* direction of its last trip, the floor it last served in that direction
\* (None before the first) and how many floors it has served in it.  A sweep
\* ends when the car moves the other way.
InitSweep ==
    /\ elevators = <<NewElevator>>
    /\ last = "init"
    /\ phase = [direction |-> "IDLE", served |-> None, count |-> 0]
    /\ ticks = 0

\* Elevator.add_stop, called with any floor argument.
SweepAddStop ==
    /\ \E floor \in FloorArgs :
          /\ elevators' = [elevators EXCEPT ![1] = add_stop(@, floor)]
          /\ last' = add_stop_branch(elevators[1], floor)
    /\ UNCHANGED <<phase, ticks>>

\* Elevator.move: a stop is entered in the sweep, a move in the other
\* direction starts a new one.
SweepMove ==
    LET e == elevators[1]
        n == move(e)
    IN  /\ elevators' = [elevators EXCEPT ![1] = n]
        /\ last' = IF should_stop(e) THEN "stop" ELSE "move"
        /\ phase' = IF should_stop(e)
                     THEN [phase EXCEPT !.served = e.current_floor,
                                        !.count = IF @ < MaxFloor THEN @ + 1 ELSE @]
                     ELSE IF n.direction \notin {"IDLE", phase.direction}
                     THEN [direction |-> n.direction, served |-> None, count |-> 0]
                     ELSE phase
        /\ UNCHANGED ticks

NextSweep == SweepAddStop \/ SweepMove

SpecSweep == InitSweep /\ [][NextSweep]_vars

\* ------------------------------------------------- the ten-floor building
\* num_floors of the controllers run_demo builds.
DemoFloors == 10
\* Floor arguments in the ten-floor building: the valid floors and both
\* neighbours.
DemoFloorArgs == 0..(DemoFloors + 1)
\* Ticks are counted up to this cap: a car with two stops is done by then.
DemoTickCap == DemoFloors + 2

\* ElevatorController(num_elevators=n, num_floors=10).elevators
DemoFleet(n) == [id \in 1..n |-> [NewElevator EXCEPT !.max_floor = DemoFloors]]

\* A controller for ten floors with one car or with several.
InitDemo ==
    /\ elevators \in {DemoFleet(n) : n \in 1..NumCars}
    /\ last = "init"
    /\ phase = "open"
    /\ ticks = 0

\* The driver of run_demo's scenarios: a first request, a car call, then
\* ticks, and possibly one more hall call while the cars are under way.
\* `phase` follows the driver: "open", then "first" after the first request,
\* "closed" after the second, "done" after the late hall call; it is
\* "first5up" and then "scenario" instead when the requests were exactly
\* request_elevator(5, UP) and then destination_request(1, 10) on one car,
\* and "done4up" when the late hall call was request_elevator(4, UP).
DemoFirstHall ==
    /\ phase = "open"
    /\ \E floor \in DemoFloorArgs, direction \in {"UP", "DOWN"} :
          /\ request_elevator(floor, direction)
          /\ phase' = IF Len(elevators) = 1 /\ floor = 5 /\ direction = "UP"
                      THEN "first5up" ELSE "first"
    /\ UNCHANGED ticks

DemoFirstCar ==
    /\ phase = "open"
    /\ \E elevator_id \in IdArgs, floor \in DemoFloorArgs :
          destination_request(elevator_id, floor)
    /\ phase' = "first"
    /\ UNCHANGED ticks

DemoSecondCar ==
    /\ phase \in {"first", "first5up"}
    /\ \E elevator_id \in IdArgs, floor \in DemoFloorArgs :
          /\ destination_request(elevator_id, floor)
          /\ phase' = IF phase = "first5up" /\ elevator_id = 1 /\ floor = DemoFloors
                      THEN "scenario" ELSE "closed"
    /\ UNCHANGED ticks

\* One tick of run_simulation after the requests, counted in `ticks`.
DemoStep ==
    /\ phase \in {"closed", "scenario"}
    /\ elevators' = step(elevators)
    /\ last' = "step"
    /\ ticks' = IF ticks < DemoTickCap THEN ticks + 1 ELSE ticks
    /\ UNCHANGED phase

DemoLateHall ==
    /\ phase \in {"closed", "scenario"}
    /\ \E floor \in DemoFloorArgs, direction \in {"UP", "DOWN"} :
          /\ request_elevator(floor, direction)
          /\ phase' = IF floor = 4 /\ direction = "UP" THEN "done4up" ELSE "done"
    /\ UNCHANGED ticks

NextDemo == DemoFirstHall \/ DemoFirstCar \/ DemoSecondCar \/ DemoStep \/ DemoLateHall

SpecDemo == InitDemo /\ [][NextDemo]_vars

\* ================================================================ claims
\* Floors a caller may validly request.
Floors == 1..MaxFloor

\* The floors pending on a car, in either stop set.
pending(e) == e.up_stops \cup e.down_stops

\* C1. Range invariant: after any sequence of hall calls, car calls and
\* steps, with any floor arguments, every car's current floor lies in
\* 1..MaxFloor.
C1_RangeInvariant ==
    \A id \in Fleet :
        1 <= elevators[id].current_floor /\ elevators[id].current_floor <= MaxFloor

\* A car has travelled to the top floor and another is back at the bottom
\* floor after a descent.
C1_Witness ==
    /\ last = "step"
    /\ \E id \in Fleet : elevators[id].current_floor = MaxFloor
    /\ \E id \in Fleet : /\ elevators[id].current_floor = 1
                         /\ elevators[id].direction = "DOWN"

\* C2. Stop-set partition invariant: in every reachable state no floor is a
\* member of both up_stops and down_stops of the same car.
C2_StopSetsDisjoint ==
    \A id \in Fleet : elevators[id].up_stops \cap elevators[id].down_stops = {}

\* A car holds stops in both sets and stands on one of its own up stops.
C2_Witness ==
    \E id \in Fleet :
        /\ elevators[id].up_stops # {}
        /\ elevators[id].down_stops # {}
        /\ elevators[id].current_floor \in elevators[id].up_stops

\* C3. Eventual service: a floor pending on a car is eventually served, the
\* car standing at that floor with the floor removed from its stop sets,
\* as long as step() keeps being called; requests may keep arriving.
C3_EventualService ==
    \A id \in Fleet : \A f \in Floors :
        (f \in pending(elevators[id]))
            ~> (elevators[id].current_floor = f /\ f \notin pending(elevators[id]))

\* A car travelling up with stops ahead of it while a down stop waits.
C3_Witness ==
    \E id \in Fleet :
        /\ elevators[id].direction = "UP"
        /\ elevators[id].state = "MOVING"
        /\ elevators[id].up_stops # {}
        /\ elevators[id].down_stops # {}

\* ElevatorController: IsSettled, every car Idle in direction with no stops.
IsSettled ==
    \A id \in DOMAIN elevators :
        elevators[id].direction = "IDLE" /\ pending(elevators[id]) = {}

\* C4. Eventual settlement: once no further requests are made, repeated
\* step() calls eventually reach a state where IsSettled holds.
C4_EventualSettlement == (phase = "closed") ~> IsSettled

\* C5 as claimed. Settlement bound: once no further stops are added, both
\* stop sets of every car are empty after at most 2 * MaxFloor step() calls.
C5_SettlementBound ==
    (phase = "closed" /\ ticks >= 2 * MaxFloor)
        => \A id \in Fleet : pending(elevators[id]) = {}

\* C5 as amended. Once no further stops are added, both stop sets of every
\* car are empty after at most 3 * MaxFloor - 3 step() calls.
C5_SettlementBound3 ==
    (phase = "closed" /\ ticks >= 3 * MaxFloor - 3)
        => \A id \in Fleet : pending(elevators[id]) = {}

\* The amended bound is met with nothing to spare: a car finishes its last
\* stop at the top floor on exactly the last tick the bound allows.
C5_Witness ==
    /\ phase = "closed"
    /\ ticks = 3 * MaxFloor - 3
    /\ \E id \in Fleet : /\ elevators[id].current_floor = MaxFloor
                         /\ elevators[id].direction = "UP"
                         /\ pending(elevators[id]) = {}

\* C6. A car call whose car id is outside the fleet (zero, negative or too
\* large) is rejected and leaves every car unchanged.
C6_UnknownCarRejected ==
    [][\A elevator_id \in IdArgs \ Fleet : \A floor \in FloorArgs :
          destination_request(elevator_id, floor) => elevators' = elevators]_vars

\* C7. A stop request for a floor below 1 or above MaxFloor, made through
\* add_stop, a hall call or a car call, changes no car: add_stop returns the
\* car as it was, and no step that changes a car is such a request.
C7_OutOfRangeNoChange ==
    /\ [](\A floor \in FloorArgs \ Floors : \A id \in Fleet :
            add_stop(elevators[id], floor) = elevators[id])
    /\ [][elevators' # elevators =>
            \A floor \in FloorArgs \ Floors :
                /\ \A direction \in {"UP", "DOWN"} :
                      ~request_elevator(floor, direction)
                /\ \A elevator_id \in IdArgs :
                      ~destination_request(elevator_id, floor)]_vars

\* An out-of-range request has just been turned down by add_stop while a car
\* was under way with stops pending.
C7_Witness ==
    /\ last = "range"
    /\ \E id \in Fleet : /\ pending(elevators[id]) # {}
                         /\ elevators[id].current_floor > 1

\* C8. add_stop on a car in MAINTENANCE is rejected: for every in-range
\* floor the car's stop sets are unchanged, called directly or through a car
\* call.
C8_OutOfServiceRejects ==
    [][\A id \in Fleet : \A floor \in Floors :
          elevators[id].state = "MAINTENANCE" =>
            /\ add_stop(elevators[id], floor).up_stops = elevators[id].up_stops
            /\ add_stop(elevators[id], floor).down_stops = elevators[id].down_stops
            /\ destination_request(id, floor) =>
                 /\ elevators'[id].up_stops = elevators[id].up_stops
                 /\ elevators'[id].down_stops = elevators[id].down_stops]_vars

\* The cars select_elevator may choose from.
AvailableCars == {id \in Fleet : elevators[id].state # "MAINTENANCE"}

\* C9. select_elevator never returns a car in MAINTENANCE; when every car is
\* in MAINTENANCE it returns none and the hall call changes no car.
C9_NoOutOfServiceCar ==
    /\ [](\A floor \in FloorArgs : \A direction \in {"UP", "DOWN"} :
            LET chosen == select_elevator(elevators, floor, direction)
            IN  /\ chosen # None => chosen \in AvailableCars
                /\ AvailableCars = {} => chosen = None)
    /\ [][AvailableCars = {} =>
            \A floor \in FloorArgs : \A direction \in {"UP", "DOWN"} :
                request_elevator(floor, direction) => elevators' = elevators]_vars

\* A hall call has just been dropped because the whole fleet is out of
\* service.
C9_Witness ==
    /\ last = "no_car"
    /\ AvailableCars = {}

\* The score of section 4.2: the distance to the floor, less 100 when the
\* car is heading toward the request.
C10_Score(e, floor, direction) ==
    LET d == e.current_floor - floor
        dist == IF d < 0 THEN 0 - d ELSE d
        heading == \/ e.direction = "IDLE"
                   \/ /\ e.direction = direction
                      /\ \/ direction = "UP" /\ e.current_floor < floor
                         \/ direction = "DOWN" /\ e.current_floor > floor
    IN  IF heading THEN dist - 100 ELSE dist

\* C10. With at least one available car, select_elevator returns the
\* available car of minimal score and, among equal minimal scores, the one
\* with the lowest id.
C10_MinScoreLowestId ==
    \A floor \in FloorArgs : \A direction \in {"UP", "DOWN"} :
        AvailableCars # {} =>
            LET chosen == select_elevator(elevators, floor, direction)
                sc(id) == C10_Score(elevators[id], floor, direction)
            IN  /\ chosen \in AvailableCars
                /\ \A id \in AvailableCars :
                      \/ sc(chosen) < sc(id)
                      \/ sc(chosen) = sc(id) /\ chosen <= id

\* A stop has just been put on car 2 while car 1, available, holds none and
\* the request that did it would again be routed to car 2: the score, not
\* the position in the fleet, decides.
C10_Witness ==
    /\ last \in {"up", "down"}
    /\ 1 \in AvailableCars
    /\ pending(elevators[1]) = {}
    /\ pending(elevators[2]) # {}
    /\ \E floor \in Floors, direction \in {"UP", "DOWN"} :
          /\ select_elevator(elevators, floor, direction) = 2
          /\ floor \in pending(elevators[2])

\* C11. No reversal mid-stop: a step removes a floor from a car's stop sets
\* only by stopping at it in the matching direction.  A floor that is only in
\* down_stops is never removed while the car's direction is UP (it is removed
\* only once the direction is DOWN), and symmetrically a floor only in
\* up_stops is removed only while the direction is UP.
C11_NoReversalMidStop ==
    [][elevators' # elevators =>
          \A id \in Fleet : \A f \in Floors :
              LET e == elevators[id]
              IN  (f \in pending(e) /\ f \notin pending(elevators'[id])) =>
                      /\ f \in e.down_stops \ e.up_stops => e.direction = "DOWN"
                      /\ f \in e.up_stops \ e.down_stops => e.direction = "UP"]_vars

\* A car has just served an up stop while travelling up and a down stop of
\* it is still waiting for the reversal.
C11_Witness ==
    /\ last = "step"
    /\ \E id \in Fleet : /\ elevators[id].direction = "UP"
                         /\ elevators[id].state = "IDLE"
                         /\ elevators[id].down_stops # {}

\* C12. Direction-idle invariant: a car's direction is IDLE exactly when both
\* of its stop sets are empty and its state is IDLE or MAINTENANCE.
C12_DirectionIdleIff ==
    \A id \in Fleet :
        (elevators[id].direction = "IDLE")
            <=> /\ pending(elevators[id]) = {}
                /\ elevators[id].state \in {"IDLE", "MAINTENANCE"}

\* C13. A stop request for the floor at which a car in state IDLE (or
\* DOOR_OPEN) stands is not discarded: the floor is pending on the car after
\* the request, to be served by a door cycle on a following tick.
C13_SameFloorKept ==
    [][\A id \in Fleet :
          (/\ elevators[id].state \in {"IDLE", "DOOR_OPEN"}
           /\ destination_request(id, elevators[id].current_floor))
              => elevators[id].current_floor \in pending(elevators'[id])]_vars

\* C14. The controller's step applies the car's move exactly once to every
\* car, the cars with no pending stops included: the fleet after step() is
\* the fleet with move() applied to each car.
C14_StepMovesEveryCar ==
    [][Step => elevators' = [id \in Fleet |-> move(elevators[id])]]_vars

\* C18. Idempotent stop insertion: for every reachable car state and every
\* floor argument, in range or not, calling add_stop twice with the floor
\* leaves the car (stop sets, floor, direction, state) as calling it once.
C18_AddStopIdempotent ==
    \A id \in Fleet : \A floor \in FloorArgs :
        add_stop(add_stop(elevators[id], floor), floor)
            = add_stop(elevators[id], floor)

\* A stop has just been added to a car that is under way and holds stops in
\* both sets.
C18_Witness ==
    /\ last \in {"up", "down"}
    /\ \E id \in Fleet : /\ elevators[id].state = "MOVING"
                         /\ elevators[id].up_stops # {}
                         /\ elevators[id].down_stops # {}

\* The cars in ascending id order, the order of self.elevators.
Ascending == [i \in Fleet |-> i]

\* C20. Within one tick the order in which the cars are stepped does not
\* matter: running the loop of step() over any permutation of the cars gives
\* the fleet that ascending id order gives, which is the fleet after step().
C20_StepOrderIrrelevant ==
    /\ \A order \in Permutations(Fleet) :
          step_loop(elevators, order, 1) = step_loop(elevators, Ascending, 1)
    /\ step_loop(elevators, Ascending, 1) = step(elevators)

\* Both cars have just moved in the same tick and stand at different floors.
C20_Witness ==
    /\ last = "step"
    /\ \A id \in Fleet : elevators[id].state = "MOVING"
    /\ elevators[1].current_floor # elevators[2].current_floor

\* The car of the one-car scenario.
ScenarioCar == elevators[1]

\* C15 as claimed. One car, ten floors, car at floor 1, request_elevator(5, UP)
\* then destination_request(1, 10): after exactly 4 steps the car is at floor
\* 5 with state DOOR_OPEN, and after the 5th step it is MOVING toward 10.
C15_ScenarioDoorOpenAt4 ==
    phase = "scenario" =>
        /\ ticks = 4 => /\ ScenarioCar.current_floor = 5
                        /\ ScenarioCar.state = "DOOR_OPEN"
        /\ ticks = 5 => /\ ScenarioCar.state = "MOVING"
                        /\ ScenarioCar.direction = "UP"
                        /\ 10 \in ScenarioCar.up_stops

\* C15 as amended. In that scenario the car is at floor 5 after exactly 4
\* steps, still MOVING with floor 5 pending; the 5th step serves floor 5
\* without moving and leaves the state IDLE (the door is opened and closed
\* within the step); after the 6th step the car is MOVING up toward 10.
C15_ScenarioStopAt5 ==
    phase = "scenario" =>
        /\ ticks = 4 => /\ ScenarioCar.current_floor = 5
                        /\ ScenarioCar.state = "MOVING"
                        /\ ScenarioCar.up_stops = {5, 10}
        /\ ticks = 5 => /\ ScenarioCar.current_floor = 5
                        /\ ScenarioCar.state = "IDLE"
                        /\ ScenarioCar.up_stops = {10}
        /\ ticks = 6 => /\ ScenarioCar.current_floor = 6
                        /\ ScenarioCar.state = "MOVING"
                        /\ ScenarioCar.direction = "UP"
                        /\ ScenarioCar.up_stops = {10}

\* The scenario has run for six ticks: floor 5 is served and the car is on
\* its way to floor 10.
C15_Witness ==
    /\ phase = "scenario"
    /\ ticks = 6
    /\ last = "step"
    /\ pending(ScenarioCar) = {10}

\* C16. In the same scenario the car has reached floor 10 and opened its
\* door there (floor 10 is served) after 9 steps in total, and IsSettled
\* holds after the 10th step.
C16_ScenarioSettles ==
    phase = "scenario" =>
        /\ ticks = 9 => /\ ScenarioCar.current_floor = 10
                        /\ 10 \notin pending(ScenarioCar)
        /\ ticks = 10 => IsSettled

\* C17. Two cars, car A MOVING up at floor 3 with a pending stop at 8, car B
\* idle at floor 1: request_elevator(4, UP) selects car A and adds 4 to A's
\* up_stops, and leaves car B unchanged.
C17_MovingCarPreferred ==
    [][\A a \in DOMAIN elevators : \A b \in DOMAIN elevators \ {a} :
          (/\ elevators[a].current_floor = 3
           /\ elevators[a].state = "MOVING"
           /\ elevators[a].direction = "UP"
           /\ 8 \in elevators[a].up_stops
           /\ elevators[b].current_floor = 1
           /\ elevators[b].state = "IDLE"
           /\ elevators[b].direction = "IDLE"
           /\ request_elevator(4, "UP"))
              => /\ select_elevator(elevators, 4, "UP") = a
                 /\ elevators'[a] = [elevators[a] EXCEPT !.up_stops = @ \cup {4}]
                 /\ 4 \in elevators'[a].up_stops
                 /\ elevators'[b] = elevators[b]]_vars

\* The hall call for floor 4 has just been put on the car moving up at
\* floor 3 toward floor 8 while the other car idles at floor 1.
C17_Witness ==
    /\ phase = "done4up"
    /\ last = "up"
    /\ ticks = 2
    /\ \E a \in DOMAIN elevators : \E b \in DOMAIN elevators \ {a} :
          /\ elevators[a].current_floor = 3
          /\ elevators[a].state = "MOVING"
          /\ elevators[a].up_stops = {4, 8}
          /\ elevators[b].current_floor = 1
          /\ elevators[b].direction = "IDLE"
          /\ pending(elevators[b]) = {}

\* C22. Putting a car into MAINTENANCE clears both of its stop sets without
\* serving them: after the transition up_stops and down_stops are empty and
\* current_floor is unchanged.
C22_EjectClearsStops ==
    [][\A id \in Fleet :
          (elevators[id].state # "MAINTENANCE" /\ elevators'[id].state = "MAINTENANCE")
              => /\ elevators'[id].up_stops = {}
                 /\ elevators'[id].down_stops = {}
                 /\ elevators'[id].current_floor = elevators[id].current_floor]_vars

\* A car that had travelled away from floor 1 has just been taken out of
\* service.
C22_Witness ==
    /\ last = "maint"
    /\ \E id \in Fleet : /\ elevators[id].state = "MAINTENANCE"
                         /\ elevators[id].direction # "IDLE"
                         /\ elevators[id].current_floor > 1

\* C23. Request frame: a car call (c, f) changes at most the stop sets of car
\* c and nothing of any other car; a hall call changes at most the stop sets
\* of the car select_elevator returns; neither changes any car's
\* current_floor, direction or state.
C23_RequestFrame ==
    [][last' \notin {"step", "close", "maint"} =>
          /\ \A id \in DOMAIN elevators :
                /\ elevators'[id].current_floor = elevators[id].current_floor
                /\ elevators'[id].direction = elevators[id].direction
                /\ elevators'[id].state = elevators[id].state
          /\ \A elevator_id \in IdArgs : \A floor \in FloorArgs :
                destination_request(elevator_id, floor) =>
                    \A id \in Fleet \ {elevator_id} : elevators'[id] = elevators[id]
          /\ elevators' # elevators =>
                \A floor \in FloorArgs : \A direction \in {"UP", "DOWN"} :
                    request_elevator(floor, direction) =>
                        \A id \in Fleet \ {select_elevator(elevators, floor, direction)} :
                            elevators'[id] = elevators[id]]_vars

\* C24 as claimed. In a tick where should_stop holds for a car, the car ends
\* the tick in state DOOR_OPEN, with its current floor removed from both stop
\* sets and its current floor unchanged.
C24_StopEndsDoorOpen ==
    [][last' = "step" =>
          \A id \in Fleet : should_stop(elevators[id]) =>
              /\ elevators'[id].state = "DOOR_OPEN"
              /\ elevators[id].current_floor \notin pending(elevators'[id])
              /\ elevators'[id].current_floor = elevators[id].current_floor]_vars

\* C24 as amended. In a tick where should_stop holds for a car, the car ends
\* the tick in state IDLE (the door is opened and closed within the tick),
\* with its current floor removed from both stop sets and its current floor
\* unchanged.
C24_StopEndsIdle ==
    [][last' = "step" =>
          \A id \in Fleet : should_stop(elevators[id]) =>
              /\ elevators'[id].state = "IDLE"
              /\ elevators[id].current_floor \notin pending(elevators'[id])
              /\ elevators'[id].current_floor = elevators[id].current_floor]_vars

\* A car has just served a stop on its way down while an up stop of it is
\* still pending.
C24_Witness ==
    /\ last = "step"
    /\ \E id \in Fleet : /\ elevators[id].direction = "DOWN"
                         /\ elevators[id].state = "IDLE"
                         /\ elevators[id].up_stops # {}

\* C25 as claimed. Across any single operation a car's state stays the same
\* or changes along IDLE -> MOVING, MOVING -> DOOR_OPEN, DOOR_OPEN -> IDLE
\* (both stop sets empty), DOOR_OPEN -> MOVING (stops remain) or any ->
\* MAINTENANCE; in particular never MOVING -> IDLE.
C25_ListedTransitions ==
    [][\A id \in Fleet :
          LET s == elevators[id].state
              t == elevators'[id].state
          IN  \/ s = t
              \/ s = "IDLE" /\ t = "MOVING"
              \/ s = "MOVING" /\ t = "DOOR_OPEN"
              \/ s = "DOOR_OPEN" /\ t = "IDLE" /\ pending(elevators'[id]) = {}
              \/ s = "DOOR_OPEN" /\ t = "MOVING" /\ pending(elevators'[id]) # {}
              \/ t = "MAINTENANCE"]_vars

\* C25 as amended. Across any single operation a car's state stays the same
\* or changes along IDLE -> MOVING (a tick that moves), MOVING -> IDLE (a tick
\* that serves a stop, the door being opened and closed within it) or any ->
\* MAINTENANCE; DOOR_OPEN is never the state between two operations.
C25_ObservedTransitions ==
    /\ [](\A id \in Fleet : elevators[id].state # "DOOR_OPEN")
    /\ [][\A id \in Fleet :
             LET s == elevators[id].state
                 t == elevators'[id].state
             IN  \/ s = t
                 \/ s = "IDLE" /\ t = "MOVING"
                 \/ s = "MOVING" /\ t = "IDLE"
                 \/ t = "MAINTENANCE"]_vars

\* In one tick a car has gone from a served stop to moving again while the
\* other car stands idle after serving its stop.
C25_Witness ==
    /\ last = "step"
    /\ \E id \in Fleet : /\ elevators[id].state = "IDLE"
                         /\ elevators[id].direction # "IDLE"
    /\ \E id \in Fleet : /\ elevators[id].state = "MOVING"
                         /\ elevators[id].current_floor \notin pending(elevators[id])

\* C26. SCAN continuation: in a tick that moves a car, a car heading UP with
\* up stops pending moves up (whether or not down stops are pending), a car
\* heading DOWN with down stops pending moves down, and the direction
\* reverses only when the set of the current direction is empty and the
\* opposite set is not.
C26_ScanContinuation ==
    [][last' = "step" =>
          \A id \in Fleet :
              LET e == elevators[id]
                  n == elevators'[id]
              IN  n.current_floor # e.current_floor =>
                    /\ (e.direction = "UP" /\ e.up_stops # {})
                          => /\ n.current_floor = e.current_floor + 1
                             /\ n.direction = "UP"
                    /\ (e.direction = "DOWN" /\ e.down_stops # {})
                          => /\ n.current_floor = e.current_floor - 1
                             /\ n.direction = "DOWN"
                    /\ (e.direction = "UP" /\ n.direction = "DOWN")
                          => e.up_stops = {} /\ e.down_stops # {}
                    /\ (e.direction = "DOWN" /\ n.direction = "UP")
                          => e.down_stops = {} /\ e.up_stops # {}]_vars

\* A car has just moved down, above the bottom floor, with stops pending on
\* both sides of it.
C26_Witness ==
    /\ last = "step"
    /\ \E id \in Fleet : /\ elevators[id].direction = "DOWN"
                         /\ elevators[id].state = "MOVING"
                         /\ elevators[id].up_stops # {}
                         /\ \E f \in elevators[id].down_stops :
                                f < elevators[id].current_floor

\* C27 as claimed. Idle tie-break: move() on a car whose direction is IDLE
\* and whose stop sets are both non-empty moves the car up: the floor grows
\* by one and the direction becomes UP.
C27_IdleTieUp ==
    [][(/\ last' \in {"move", "move_tie"}
        /\ elevators[1].direction = "IDLE"
        /\ elevators[1].up_stops # {}
        /\ elevators[1].down_stops # {})
          => /\ elevators'[1].current_floor = elevators[1].current_floor + 1
             /\ elevators'[1].direction = "UP"]_vars

\* C27 as amended. move() on a car whose direction is IDLE and whose stop
\* sets are both non-empty moves the car down: the floor shrinks by one and
\* the direction becomes DOWN.
C27_IdleTieDown ==
    [][(/\ last' \in {"move", "move_tie"}
        /\ elevators[1].direction = "IDLE"
        /\ elevators[1].up_stops # {}
        /\ elevators[1].down_stops # {})
          => /\ elevators'[1].current_floor = elevators[1].current_floor - 1
             /\ elevators'[1].direction = "DOWN"
             /\ elevators'[1].state = "MOVING"]_vars

\* An idle car with stops on both sides has just been moved.
C27_Witness ==
    /\ last = "move_tie"
    /\ elevators[1].state = "MOVING"
    /\ elevators[1].up_stops # {}

\* C28. A car not in MAINTENANCE that is stepped with both stop sets empty
\* ends the tick with direction IDLE, state IDLE and its floor unchanged; so
\* once the last stop is served and the ticks go on, the direction is IDLE
\* again.
C28_EmptyStepIdles ==
    [][last' = "step" =>
          \A id \in Fleet :
              (pending(elevators[id]) = {} /\ elevators[id].state # "MAINTENANCE")
                  => /\ elevators'[id].direction = "IDLE"
                     /\ elevators'[id].state = "IDLE"
                     /\ elevators'[id].current_floor = elevators[id].current_floor]_vars

\* C29. Placement by add_stop: a floor in range above the car's floor goes
\* into up_stops and leaves down_stops alone, a floor below it goes into
\* down_stops and leaves up_stops alone, whatever the car's direction and the
\* direction of the hall call.
C29_AddStopPlacement ==
    /\ [](\A id \in Fleet : \A floor \in Floors :
             LET e == elevators[id]
                 a == add_stop(e, floor)
             IN  /\ floor > e.current_floor
                       => a = [e EXCEPT !.up_stops = e.up_stops \cup {floor}]
                 /\ floor < e.current_floor
                       => a = [e EXCEPT !.down_stops = e.down_stops \cup {floor}])
    /\ [][/\ last' = "up" =>
                \E id \in Fleet : \E floor \in Floors :
                    /\ floor > elevators[id].current_floor
                    /\ elevators' = [elevators EXCEPT ![id].up_stops = @ \cup {floor}]
          /\ last' = "down" =>
                \E id \in Fleet : \E floor \in Floors :
                    /\ floor < elevators[id].current_floor
                    /\ elevators' = [elevators EXCEPT ![id].down_stops = @ \cup {floor}]]_vars

\* A car heading up and moving has just been given a stop below it.
C29_Witness ==
    /\ last = "down"
    /\ \E id \in Fleet : /\ elevators[id].direction = "UP"
                         /\ elevators[id].state = "MOVING"
                         /\ elevators[id].down_stops # {}

\* C30. Each tick changes a car's floor by at most one, and by exactly zero
\* in a tick that serves a stop.
C30_OneFloorPerTick ==
    [][last' = "step" =>
          \A id \in Fleet :
              LET e == elevators[id]
                  n == elevators'[id]
              IN  /\ n.current_floor \in {e.current_floor - 1, e.current_floor,
                                          e.current_floor + 1}
                  /\ (should_stop(e) \/ pending(n) # pending(e))
                        => n.current_floor = e.current_floor]_vars

\* A car heading up has just served a stop with further up stops pending.
C30_Witness ==
    /\ last = "step"
    /\ \E id \in Fleet : /\ elevators[id].direction = "UP"
                         /\ elevators[id].state = "IDLE"
                         /\ elevators[id].up_stops # {}

\* C31. is_moving_towards(floor, direction) is true exactly when the car's
\* direction is IDLE, or the car's direction is the requested one and the
\* floor lies strictly ahead (above the car for UP, below it for DOWN); so it
\* is false for a car at the requested floor with a non-idle direction and
\* for a car travelling the other way.
C31_HeadingTowardExactly ==
    \A id \in Fleet : \A floor \in FloorArgs : \A direction \in {"UP", "DOWN"} :
        LET e == elevators[id]
        IN  is_moving_towards(e, floor, direction)
                <=> \/ e.direction = "IDLE"
                    \/ /\ e.direction = direction
                       /\ \/ direction = "UP" /\ e.current_floor < floor
                          \/ direction = "DOWN" /\ e.current_floor > floor

\* A hall call has just been taken while one car was heading up between the
\* end floors and the other was heading down.
C31_Witness ==
    /\ last \in {"up", "down", "same"}
    /\ \E id \in Fleet : /\ elevators[id].direction = "UP"
                         /\ elevators[id].current_floor \in 2..(MaxFloor - 1)
    /\ \E id \in Fleet : elevators[id].direction = "DOWN"

\* C32. A car with no pending stops in state IDLE, a car that has just served
\* its last stop included, counts as idle for the scheduler:
\* is_moving_towards holds of it for every floor and direction.
C32_IdleCarHeadsAnywhere ==
    \A id \in Fleet :
        (pending(elevators[id]) = {} /\ elevators[id].state = "IDLE")
            => \A floor \in Floors : \A direction \in {"UP", "DOWN"} :
                   is_moving_towards(elevators[id], floor, direction)

\* C33. Bonus dominance: whenever some available car is moving towards the
\* request, select_elevator does not return a car that is not, however close
\* that car is to the requested floor.
C33_BonusDominance ==
    \A floor \in FloorArgs : \A direction \in {"UP", "DOWN"} :
        (\E id \in Fleet : /\ is_available(elevators[id])
                           /\ is_moving_towards(elevators[id], floor, direction))
            => /\ select_elevator(elevators, floor, direction) # None
               /\ is_moving_towards(
                      elevators[select_elevator(elevators, floor, direction)],
                      floor, direction)

\* An up call has just gone to a car moving towards it although an available
\* car that is not moving towards it is strictly nearer.
C33_Witness ==
    /\ last = "up"
    /\ \E a \in Fleet : \E b \in Fleet \ {a} : \E floor \in elevators[a].up_stops :
          /\ select_elevator(elevators, floor, "UP") = a
          /\ is_available(elevators[b])
          /\ ~is_moving_towards(elevators[b], floor, "UP")
          /\ get_distance(elevators[b], floor) < get_distance(elevators[a], floor)

\* C34. A tick is a no-op for a car in MAINTENANCE: its floor, direction,
\* state and both stop sets are unchanged, also when stops are pending on it.
C34_MaintenanceStepNoOp ==
    [][last' = "step" =>
          \A id \in Fleet :
              elevators[id].state = "MAINTENANCE" => elevators'[id] = elevators[id]]_vars

\* A tick has passed over a car in MAINTENANCE that has a stop pending.
C34_Witness ==
    /\ last = "step"
    /\ \E id \in Fleet : /\ elevators[id].state = "MAINTENANCE"
                         /\ pending(elevators[id]) # {}

\* C36. No reassignment and no silent drop: a floor leaves a stop set of a
\* car only in a tick in which that car stands at the floor and stops there;
\* it is never removed while the car is elsewhere, by a request or by a tick
\* of another car.
C36_StopLeavesOnlyWhenServed ==
    [][\A id \in Fleet :
          LET e == elevators[id]
              n == elevators'[id]
          IN  \A floor \in (e.up_stops \ n.up_stops) \cup (e.down_stops \ n.down_stops) :
                  /\ last' = "step"
                  /\ should_stop(e)
                  /\ e.current_floor = floor
                  /\ n.current_floor = floor]_vars

\* One car has just served a stop on its way up and keeps a stop below it,
\* while stops are pending on the other car too.
C36_Witness ==
    /\ last = "step"
    /\ \E id \in Fleet : /\ elevators[id].direction = "UP"
                         /\ elevators[id].state = "IDLE"
                         /\ elevators[id].down_stops # {}
                         /\ \E other \in Fleet \ {id} : pending(elevators[other]) # {}

\* C37. Stop-position invariant: every floor in up_stops is at or above the
\* car and is the car's own floor only when the direction is UP; every floor
\* in down_stops is at or below the car and is the car's own floor only when
\* the direction is DOWN.
C37_StopPosition ==
    \A id \in Fleet :
        LET e == elevators[id]
        IN  /\ \A floor \in e.up_stops :
                  /\ floor >= e.current_floor
                  /\ floor = e.current_floor => e.direction = "UP"
            /\ \A floor \in e.down_stops :
                  /\ floor <= e.current_floor
                  /\ floor = e.current_floor => e.direction = "DOWN"

\* One car has arrived at an up stop and the other at a down stop.
C37_Witness ==
    /\ \E id \in Fleet : elevators[id].current_floor \in elevators[id].up_stops
    /\ \E id \in Fleet : elevators[id].current_floor \in elevators[id].down_stops

\* C38. Progress per tick: a tick applied to an available car with a pending
\* stop either changes its floor by exactly one or removes its floor from its
\* stop sets; no tick leaves such a car neither moved nor served.
C38_ProgressPerTick ==
    [][last' = "step" =>
          \A id \in Fleet :
              LET e == elevators[id]
                  n == elevators'[id]
              IN  (pending(e) # {} /\ is_available(e))
                      => \/ n.current_floor \in {e.current_floor - 1, e.current_floor + 1}
                         \/ /\ n.current_floor = e.current_floor
                            /\ e.current_floor \in pending(e)
                            /\ e.current_floor \notin pending(n)]_vars

\* In one tick one car has moved and the other has served a stop on its way
\* down, both with stops still pending.
C38_Witness ==
    /\ last = "step"
    /\ \E id \in Fleet : /\ elevators[id].state = "MOVING"
                         /\ pending(elevators[id]) # {}
    /\ \E id \in Fleet : /\ elevators[id].state = "IDLE"
                         /\ elevators[id].direction = "DOWN"
                         /\ pending(elevators[id]) # {}

C39_SweepOrdering ==
    [][(last' = "stop" /\ phase.served # None) =>
          /\ phase.direction = elevators[1].direction
          /\ phase.direction = "UP" => elevators[1].current_floor > phase.served
          /\ phase.direction = "DOWN" => elevators[1].current_floor < phase.served]_vars

\* The car has served its third floor in a row on the way down.
C39_Witness ==
    /\ last = "stop"
    /\ phase.direction = "DOWN"
    /\ phase.count = 3
    /\ phase.served = 1
====
